---------------------------- MODULE Spec2Model ----------------------------
(***************************************************************************)
(* A model of socketIo.Socket (src/socketio.js): a goog.events.EventTarget *)
(* that wraps a Socket.IO client.  The state is the two static fields of   *)
(* the class, the fields of each instance, the script element the class    *)
(* injects, and the calls that reach the Socket.IO collaborator.           *)
(***************************************************************************)
EXTENDS Integers, Sequences, FiniteSets

(* ------------------------------ bounds --------------------------------- *)
NumInstances == 2
NumAddrs == 2
NumCustomTypes == 1
MaxWrappers == 1
MaxObservers == 1

Instances == 1..NumInstances
\* The handler functions callers pass to addEventListener.
Handlers == {"h1", "h2"}

AddrNames == <<"http://host:1234", "http://other:80", "http://third:81", "http://fourth:82">>
Addrs == {AddrNames[k] : k \in 1..NumAddrs}

CustomNames == <<"chat", "news", "typing", "ping">>
CustomTypes == {CustomNames[k] : k \in 1..NumCustomTypes}

\* The messages, reasons and payloads that travel through the facade.
Values == {"hi", "x", "bye"}

\* The argument lists a wrapper is invoked with: none, one or two arguments.
ArgLists == {<<>>} \cup {<<v>> : v \in Values} \cup {<<v, w>> : v \in Values, w \in Values}

(* --------------------------- program constants ------------------------- *)
CONNECT == "connect"
DISCONNECT == "disconnect"
CONNECT_FAILED == "connect_failed"
ERROR == "error"
MESSAGE == "message"

EventType == {CONNECT, DISCONNECT, CONNECT_FAILED, ERROR, MESSAGE}

Types == EventType \cup CustomTypes

\* The value of socket_ on the prototype: every instance reads it until it
\* gets a property of its own.
ProtoSocket == "null"

\* No operation has run yet.
NoOp == [op |-> "none", inst |-> 0, type |-> "", handler |-> "", args |-> <<>>,
         err |-> "none", ret |-> ""]

VARIABLES
  imported_,    \* socketIo.Socket.imported_
  wrapperMap_,  \* socketIo.Socket.wrapperMap_: type -> instance whose wrapper is cached (0: no key)
  io,           \* whether goog.global['io'] is defined
  injected,     \* number of script elements appended to the document body
  unloaded,     \* instances whose injected script has not fired LOAD yet
  listening,    \* instances whose handler_ listens for LOAD on a script
  serverAddr_,  \* per instance: the stored url ("undefined" before open)
  socket_,      \* per instance: the own property socket_ ("absent" or a handle)
  disposed_,    \* per instance: goog.Disposable's flag
  listeners,    \* per instance: the (type, handler) pairs registered on the EventTarget
  loadState,    \* per instance: where the open / handleScriptLoad_ sequence stands
  calls,        \* the calls made on the collaborator, in order
  lastOp,       \* the last operation a caller or the event loop ran, and how it ended
  dispatched    \* the canonical events the last operation dispatched, with their receivers

vars == <<imported_, wrapperMap_, io, injected, unloaded, listening, serverAddr_,
          socket_, disposed_, listeners, loadState, calls, lastOp, dispatched>>

\* Everything but the record of the last operation.
progVars == <<imported_, wrapperMap_, io, injected, unloaded, listening, serverAddr_,
              socket_, disposed_, listeners, loadState, calls>>

Init ==
  /\ imported_ = FALSE
  /\ wrapperMap_ = [t \in Types |-> 0]
  /\ io = FALSE
  /\ injected = 0
  /\ unloaded = {}
  /\ listening = {}
  /\ serverAddr_ = [i \in Instances |-> "undefined"]
  /\ socket_ = [i \in Instances |-> "absent"]
  /\ disposed_ = [i \in Instances |-> FALSE]
  /\ listeners = [i \in Instances |-> {}]
  /\ loadState = [i \in Instances |-> "unopened"]
  /\ calls = <<>>
  /\ lastOp = NoOp
  /\ dispatched = <<>>

(* ------------------------------ helpers -------------------------------- *)
\* Reading this.socket_: the own property, else the prototype's value.
SocketOf(i) == IF socket_[i] = "absent" THEN ProtoSocket ELSE socket_[i]

\* goog.isDef
isDef(v) == v # "undefined"

\* goog.isDefAndNotNull
isDefAndNotNull(v) == v # "undefined" /\ v # "null"

\* The condition goog.asserts.assert is given in assertSocketExists_.
assertSocketExists_(i) == isDef(SocketOf(i))

\* JavaScript truthiness of the values the model uses.
Truthy(v) == v \notin {"false", "null", "undefined"}

\* this.socket_['socket']['open'] as the collaborator reports it: the handle
\* was connected and no disconnect was requested on it since.
RECURSIVE TransportOpen(_, _)
TransportOpen(h, cs) ==
  IF cs = <<>> THEN "false"
  ELSE LET c == cs[Len(cs)]
       IN  IF c.handle = h /\ c.fn = "disconnect" THEN "false"
           ELSE IF c.handle = h /\ c.fn = "connect" THEN "true"
           ELSE TransportOpen(h, SubSeq(cs, 1, Len(cs) - 1))

\* A call on the collaborator.
Call(fn, h, a, b) == [fn |-> fn, handle |-> h, a |-> a, b |-> b]


\* The methods an instance of socketIo.Socket has: those the file defines on
\* the prototype and those it inherits from goog.events.EventTarget.
Methods ==
  {"addEventListener", "assertSocketExists_", "addCustomEventListener_",
   "removeCustomEventListener_", "createWrapper", "isOpen", "open",
   "importSocketIo", "close", "send", "dispatchEventOnServer", "onmessage_",
   "handleScriptLoad_", "disposeInternal",
   "removeEventListener", "dispatchEvent", "dispose", "isDisposed"}

\* What a guarded call this.socket_[fn](a, b) does: the assertion, then the
\* property access on the value of socket_, then the call.
PassThrough(i, fn, a, b) ==
  IF ~assertSocketExists_(i)
    THEN [err |-> "AssertionError", calls |-> calls]
  ELSE IF ~isDefAndNotNull(SocketOf(i))
    THEN [err |-> "TypeError", calls |-> calls]
  ELSE [err |-> "none", calls |-> Append(calls, Call(fn, SocketOf(i), a, b))]

\* isOpen without the test of this.socket_.
isOpen_ImportedOnly(i) == IF ~imported_ THEN "false" ELSE "true"

\* isOpen: the value of imported_ && this.socket_ && this.socket_['socket']['open'].
isOpen(i) ==
  IF ~imported_ THEN "false"
  ELSE IF ~Truthy(SocketOf(i)) THEN SocketOf(i)
  ELSE TransportOpen(SocketOf(i), calls)

\* handleScriptLoad_ connecting before it tests io.
handleScriptLoad_ConnectsFirst(i, ioDefined) ==
  [err |-> IF ioDefined THEN "none" ELSE "Error",
   socket |-> "handle",
   calls |-> Append(calls, Call("connect", "handle", serverAddr_[i], ""))]

\* handleScriptLoad_ without the test of io.
handleScriptLoad_NoCheck(i, ioDefined) ==
  [err |-> "none", socket |-> socket_[i], calls |-> calls]

\* handleScriptLoad_ with goog.global['io'] defined or not: how it ends, and
\* the own socket_ and the collaborator calls it leaves.
handleScriptLoad_(i, ioDefined) ==
  IF ~ioDefined
    THEN [err |-> "Error", socket |-> socket_[i], calls |-> calls]
    ELSE [err |-> "none", socket |-> socket_[i], calls |-> calls]

\* importSocketIo without the test of imported_.
alreadyImported_Never == FALSE

\* The test importSocketIo makes before it injects the script.
alreadyImported == imported_

\* The argument a wrapper's k-th parameter is bound to.
Arg(args, k) == IF Len(args) >= k THEN args[k] ELSE "undefined"

\* createWrapper with the ERROR case label missing: ERROR falls to the default.
createWrapper_ErrorAsCustom(type, that, args) ==
  IF type = MESSAGE
    THEN << [target |-> that, event |-> [type |-> type, message |-> Arg(args, 1)]] >>
  ELSE IF type = CONNECT
    THEN << [target |-> that, event |-> [type |-> type]] >>
  ELSE IF type \in {DISCONNECT, CONNECT_FAILED}
    THEN << [target |-> that, event |-> [type |-> type, data |-> Arg(args, 1)]] >>
  ELSE << [target |-> that, event |-> [type |-> type, data |-> args]] >>

\* createWrapper(type) on instance that, invoked with args: the dispatchEvent
\* calls the wrapper makes, in order.
createWrapper(type, that, args) ==
  IF type = MESSAGE
    THEN << [target |-> that, event |-> [type |-> type, message |-> Arg(args, 1)]] >>
  ELSE IF type = CONNECT
    THEN << [target |-> that, event |-> [type |-> type]] >>
  ELSE IF type \in {DISCONNECT, CONNECT_FAILED, ERROR}
    THEN << [target |-> that, event |-> [type |-> type, data |-> Arg(args, 1)]] >>
  ELSE << [target |-> that, event |-> [type |-> type, data |-> args]] >>

\* goog.events.EventTarget.dispatchEvent: the handlers of the target that
\* are registered for the event's type.
Receivers(i, type) == {h \in Handlers : <<type, h>> \in listeners[i]}

\* The record of an operation: what was called with what, and how it ended.
Op(op, i, t, h, err, ret) ==
  [op |-> op, inst |-> i, type |-> t, handler |-> h, args |-> <<>>, err |-> err, ret |-> ret]

\* The number of (type, handler) pairs registered on the instances' targets.
RECURSIVE Observers(_, _)
Observers(ls, n) == IF n = 0 THEN 0 ELSE Cardinality(ls[n]) + Observers(ls, n - 1)

\* open keeping the address of the first call.
storedAddr_FirstWins(i, url) ==
  IF serverAddr_[i] = "undefined" THEN url ELSE serverAddr_[i]

\* The value open(url) assigns to this.serverAddr_.
storedAddr(i, url) == url

(* ------------------------------ actions -------------------------------- *)
\* open(url): store the address, then importSocketIo.
Open(i, url) ==
  /\ serverAddr_' = [serverAddr_ EXCEPT ![i] = storedAddr(i, url)]
  /\ IF alreadyImported
       THEN LET r == handleScriptLoad_(i, io)
            IN  /\ socket_' = [socket_ EXCEPT ![i] = r.socket]
                /\ calls' = r.calls
                /\ loadState' = [loadState EXCEPT ![i] =
                                   IF r.err = "none" THEN "loaded" ELSE "failed"]
                /\ lastOp' = [Op("open", i, "", "", r.err, "") EXCEPT !.args = <<url>>]
                /\ UNCHANGED <<imported_, injected, unloaded, listening>>
       ELSE /\ listening' = listening \cup {i}
            /\ injected' = injected + 1
            /\ unloaded' = unloaded \cup {i}
            /\ imported_' = TRUE
            /\ loadState' = [loadState EXCEPT ![i] = "loading"]
            /\ lastOp' = [Op("open", i, "", "", "none", "") EXCEPT !.args = <<url>>]
            /\ UNCHANGED <<socket_, calls>>
  /\ UNCHANGED <<wrapperMap_, io, disposed_, listeners>>
  /\ dispatched' = <<>>

\* The script element injected by instance i fires LOAD; the script has
\* defined goog.global['io'] or has not.  handler_ of i runs
\* handleScriptLoad_ if it still listens.
ScriptLoad(i, defines) ==
  /\ i \in unloaded
  /\ unloaded' = unloaded \ {i}
  /\ io' = (io \/ defines)
  /\ IF i \in listening
       THEN LET r == handleScriptLoad_(i, io')
            IN  /\ socket_' = [socket_ EXCEPT ![i] = r.socket]
                /\ calls' = r.calls
                /\ loadState' = [loadState EXCEPT ![i] =
                                   IF r.err = "none" THEN "loaded" ELSE "failed"]
                /\ lastOp' = Op("scriptLoad", i, "", "", r.err, "handled")
       ELSE /\ lastOp' = Op("scriptLoad", i, "", "", "none", "ignored")
            /\ UNCHANGED <<socket_, calls, loadState>>
  /\ UNCHANGED <<imported_, wrapperMap_, injected, listening, serverAddr_,
                 disposed_, listeners>>
  /\ dispatched' = <<>>

\* The wrapper map addEventListener on instance i consults: the class's.
CacheOf(i) == wrapperMap_

\* addEventListener(type, handler).
AddEventListener(i, t, h) ==
  /\ IF CacheOf(i)[t] = 0
       THEN \* wrapper = wrapperMap[type] = this.createWrapper(type)
            /\ Cardinality({u \in Types : wrapperMap_[u] # 0}) < MaxWrappers
            /\ wrapperMap_' = [wrapperMap_ EXCEPT ![t] = i]
            /\ IF "addCustomEventListener" \in Methods
                 THEN LET r == PassThrough(i, "on", t, "wrapper")
                      IN  /\ calls' = r.calls
                          /\ IF r.err = "none"
                               THEN /\ Observers(listeners, NumInstances) < MaxObservers
                                    /\ listeners' = [listeners EXCEPT ![i] = @ \cup {<<t, h>>}]
                               ELSE UNCHANGED listeners
                          /\ lastOp' = Op("addEventListener", i, t, h, r.err, "")
                 ELSE \* this.addCustomEventListener is undefined: the call throws
                      /\ lastOp' = Op("addEventListener", i, t, h, "TypeError", "")
                      /\ UNCHANGED <<calls, listeners>>
       ELSE /\ <<t, h>> \in listeners[i] \/ Observers(listeners, NumInstances) < MaxObservers
            /\ listeners' = [listeners EXCEPT ![i] = @ \cup {<<t, h>>}]
            /\ lastOp' = Op("addEventListener", i, t, h, "none", "")
            /\ UNCHANGED <<wrapperMap_, calls>>
  /\ UNCHANGED <<imported_, io, injected, unloaded, listening, serverAddr_,
                 socket_, disposed_, loadState>>
  /\ dispatched' = <<>>

\* send(message).
Send(i, m) ==
  LET r == PassThrough(i, "send", m, "")
  IN  /\ calls' = r.calls
      /\ lastOp' = Op("send", i, "", "", r.err, "")
      /\ UNCHANGED <<imported_, wrapperMap_, io, injected, unloaded, listening,
                     serverAddr_, socket_, disposed_, listeners, loadState>>
      /\ dispatched' = <<>>

\* close().
Close(i) ==
  LET r == PassThrough(i, "disconnect", "", "")
  IN  /\ calls' = r.calls
      /\ lastOp' = Op("close", i, "", "", r.err, "")
      /\ UNCHANGED <<imported_, wrapperMap_, io, injected, unloaded, listening,
                     serverAddr_, socket_, disposed_, listeners, loadState>>
      /\ dispatched' = <<>>

\* dispatchEventOnServer({type: t, data: d}).
DispatchEventOnServer(i, t, d) ==
  LET r == PassThrough(i, "emit", t, d)
  IN  /\ calls' = r.calls
      /\ lastOp' = Op("dispatchEventOnServer", i, "", "", r.err, "")
      /\ UNCHANGED <<imported_, wrapperMap_, io, injected, unloaded, listening,
                     serverAddr_, socket_, disposed_, listeners, loadState>>
      /\ dispatched' = <<>>

\* A caller asks isOpen().
IsOpen(i) ==
  /\ lastOp' = Op("isOpen", i, "", "", "none", isOpen(i))
  /\ UNCHANGED <<imported_, wrapperMap_, io, injected, unloaded, listening,
                 serverAddr_, socket_, disposed_, listeners, loadState, calls>>
  /\ dispatched' = <<>>

\* disposeInternal returning before handler_.dispose().
disposeInternal_ReturnsEarly(i) ==
  [err |-> "none", calls |-> calls, released |-> FALSE]

\* disposeInternal calling close() whether or not the socket is open.
disposeInternal_AlwaysClose(i) ==
  LET r == PassThrough(i, "disconnect", "", "")
  IN  [err |-> r.err, calls |-> r.calls, released |-> (r.err = "none")]

\* disposeInternal after the base class released the target's listeners:
\* close() if isOpen(), then handler_.dispose() and delete this.socket_,
\* which an error thrown by close() skips.
disposeInternal(i) ==
  LET r == IF Truthy(isOpen(i))
             THEN PassThrough(i, "disconnect", "", "")
             ELSE [err |-> "none", calls |-> calls]
  IN  [err |-> r.err, calls |-> r.calls, released |-> (r.err = "none")]

\* dispose(): goog.Disposable runs disposeInternal once.
Dispose(i) ==
  /\ IF disposed_[i]
       THEN /\ lastOp' = Op("dispose", i, "", "", "none", "")
            /\ UNCHANGED <<disposed_, listeners, calls, listening, socket_>>
       ELSE /\ disposed_' = [disposed_ EXCEPT ![i] = TRUE]
            \* goog.base(this, 'disposeInternal') removes the target's listeners
            /\ listeners' = [listeners EXCEPT ![i] = {}]
            /\ LET r == disposeInternal(i)
               IN  /\ calls' = r.calls
                   /\ lastOp' = Op("dispose", i, "", "", r.err, "")
                   /\ IF r.released
                        THEN /\ listening' = listening \ {i}
                             /\ socket_' = [socket_ EXCEPT ![i] = "absent"]
                        ELSE UNCHANGED <<listening, socket_>>
  /\ UNCHANGED <<imported_, wrapperMap_, io, injected, unloaded, serverAddr_,
                 loadState>>
  /\ dispatched' = <<>>

\* A holder of createWrapper(t)'s result on instance i invokes it with args.
CallWrapper(i, t, args) ==
  /\ dispatched' = [k \in 1..Len(createWrapper(t, i, args)) |->
                      LET d == createWrapper(t, i, args)[k]
                      IN  [target |-> d.target, event |-> d.event,
                           receivers |-> Receivers(d.target, d.event.type)]]
  /\ lastOp' = [Op("callWrapper", i, t, "", "none", "") EXCEPT !.args = args]
  /\ UNCHANGED progVars

Next ==
  \/ \E i \in Instances, url \in Addrs : Open(i, url)
  \/ \E i \in Instances, defines \in BOOLEAN : ScriptLoad(i, defines)
  \/ \E i \in Instances, m \in Values : Send(i, m)
  \/ \E i \in Instances : Close(i)
  \/ \E i \in Instances, t \in CustomTypes, d \in Values : DispatchEventOnServer(i, t, d)
  \/ \E i \in Instances : IsOpen(i)
  \/ \E i \in Instances : Dispose(i)

Spec == Init /\ [][Next]_vars

\* The listener registrations of the instances, and their disposal.
NextListen ==
  \/ \E i \in Instances, t \in Types, h \in Handlers : AddEventListener(i, t, h)
  \/ \E i \in Instances : Dispose(i)

SpecListen == Init /\ [][NextListen]_vars

\* The wrappers createWrapper returns, invoked with every argument list.
NextWrapper ==
  \/ \E i \in Instances, t \in Types, args \in ArgLists : CallWrapper(i, t, args)

SpecWrapper == Init /\ [][NextWrapper]_vars

\* Listener registration together with opening: the caller adds listeners
\* before and after the connection step.
NextWire ==
  \/ \E i \in Instances, t \in Types, h \in Handlers : AddEventListener(i, t, h)
  \/ \E i \in Instances, url \in Addrs : Open(i, url)
  \/ \E i \in Instances, defines \in BOOLEAN : ScriptLoad(i, defines)

SpecWire == Init /\ [][NextWire]_vars

(* ------------------------------ properties ----------------------------- *)
\* The instance holds a connection handle.
HoldsHandle(i) == isDefAndNotNull(SocketOf(i))

PassThroughOps == {"send", "close", "dispatchEventOnServer"}

\* The calls fn(a, ...) made on handle h.
CallsOn(h, fn, a) ==
  {k \in 1..Len(calls) : calls[k].fn = fn /\ calls[k].handle = h /\ calls[k].a = a}

\* The load-completion handler of instance i was the last thing to run, and
\* it found the entry point.
HandlerRanOk(i) ==
  /\ lastOp.inst = i
  /\ lastOp.err = "none"
  /\ \/ lastOp.op = "scriptLoad" /\ lastOp.ret = "handled"
     \/ lastOp.op = "open" /\ loadState[i] = "loaded"

\* C1: while the instance holds no handle, send, close and
\* dispatchEventOnServer fail with the precondition (assertion) error, make
\* no call on the collaborator and leave the state as it was.
C1_NoHandleFailsFast ==
  [][ (lastOp'.op \in PassThroughOps /\ ~HoldsHandle(lastOp'.inst))
        => (lastOp'.err = "AssertionError" /\ progVars' = progVars) ]_vars

\* C2: when the load-completion handler runs with the entry point present,
\* connect is invoked exactly once with the stored address, the instance
\* holds the handle and is connected.
C2_LoadConnects ==
  \A i \in Instances :
    HandlerRanOk(i) =>
      /\ HoldsHandle(i)
      /\ Cardinality(CallsOn(SocketOf(i), "connect", serverAddr_[i])) = 1
      /\ loadState[i] = "loaded"

C4_OneWrapperEveryObserver ==
  lastOp.op = "addEventListener" =>
    /\ Cardinality(CallsOn(SocketOf(lastOp.inst), "on", lastOp.type)) <= 1
    /\ <<lastOp.type, lastOp.handler>> \in listeners[lastOp.inst]

\* C5: the wrapper cache is per instance: after addEventListener(T) on an
\* instance, the wrapper its cache holds for T is that instance's own,
\* whatever the other instances registered before.
C5_OwnWrapper ==
  lastOp.op = "addEventListener" =>
    CacheOf(lastOp.inst)[lastOp.type] = lastOp.inst

\* C6: addEventListener for a lifecycle type succeeds while the instance
\* holds no handle, and registers the listener for later delivery.
C6_LifecycleListenBeforeOpen ==
  (lastOp.op = "addEventListener" /\ lastOp.type \in EventType
     /\ ~HoldsHandle(lastOp.inst)) =>
    /\ lastOp.err = "none"
    /\ <<lastOp.type, lastOp.handler>> \in listeners[lastOp.inst]

\* The bootstrap script was requested and has finished loading.
ImportCompleted == injected > 0 /\ unloaded = {}

C8_DisposeSafeIdempotent ==
  /\ [](lastOp.op = "dispose" => (lastOp.err = "none" /\ disposed_[lastOp.inst]))
  /\ [][ (lastOp'.op = "dispose" /\ disposed_[lastOp'.inst]) =>
           progVars' = progVars ]_vars
  /\ [][ (lastOp'.op = "dispose" /\ ~disposed_[lastOp'.inst]) =>
           /\ listeners'[lastOp'.inst] = {}
           /\ lastOp'.inst \notin listening'
           /\ socket_'[lastOp'.inst] = "absent" ]_vars

\* One instance was disposed while loading and the other after its
\* connection step.
C8_Witness ==
  /\ lastOp.op = "dispose"
  /\ lastOp.err = "none"
  /\ \E i, j \in Instances :
       /\ disposed_[i] /\ loadState[i] = "loading"
       /\ disposed_[j] /\ loadState[j] = "loaded"

\* The canonical event the documentation fixes for a type and the arguments
\* of the collaborator's callback.
CanonicalEvent(type, args) ==
  IF type = MESSAGE THEN [type |-> type, message |-> Arg(args, 1)]
  ELSE IF type = CONNECT THEN [type |-> type]
  ELSE IF type \in {DISCONNECT, CONNECT_FAILED, ERROR}
    THEN [type |-> type, data |-> Arg(args, 1)]
  ELSE [type |-> type, data |-> args]

\* C9: a wrapper dispatches exactly one canonical event per invocation, on
\* the instance that created it, of the shape its type fixes.
C9_WrapperShape ==
  lastOp.op = "callWrapper" =>
    /\ Len(dispatched) = 1
    /\ dispatched[1].target = lastOp.inst
    /\ DOMAIN dispatched[1].event = DOMAIN CanonicalEvent(lastOp.type, lastOp.args)
    /\ dispatched[1].event = CanonicalEvent(lastOp.type, lastOp.args)

\* The ERROR wrapper was invoked with a reason and a second argument.
C9_Witness ==
  /\ lastOp.op = "callWrapper"
  /\ lastOp.type = ERROR
  /\ Len(lastOp.args) = 2
  /\ Len(dispatched) = 1
  /\ dispatched[1].event.data = lastOp.args[1]

\* C10: the import flag only goes from false to true, it is written only
\* when the one script element is injected, and no second script element
\* is ever injected.
C10_ImportOnce ==
  [][ /\ imported_ => imported_'
      /\ injected' <= 1
      /\ (imported_' # imported_) <=> (injected' = injected + 1) ]_vars

\* Every instance has called open after the one injection, and one of them
\* went straight to its connection step.
C10_Witness ==
  /\ imported_
  /\ injected = 1
  /\ \A i \in Instances : serverAddr_[i] # "undefined"
  /\ \E i \in Instances : loadState[i] = "loaded" /\ i \notin listening

\* The load-completion handler of the instance was the last thing to run:
\* from the LOAD event, or straight from open.
HandlerRan ==
  \/ lastOp.op = "scriptLoad" /\ lastOp.ret = "handled"
  \/ lastOp.op = "open" /\ loadState[lastOp.inst] # "loading"

\* C11: when the load-completion handler runs and the entry point is
\* absent, it raises the entry-point error, no connect is made, the
\* instance gets no handle and is not connected.
C11_EntryPointMissing ==
  (HandlerRan /\ ~io) =>
    /\ lastOp.err = "Error"
    /\ ~HoldsHandle(lastOp.inst)
    /\ loadState[lastOp.inst] = "failed"
    /\ \A k \in 1..Len(calls) : calls[k].fn # "connect"

\* The LOAD event ran the handler of a listening instance and the script
\* had not defined the entry point.
C11_Witness ==
  /\ lastOp.op = "scriptLoad"
  /\ lastOp.ret = "handled"
  /\ ~io
  /\ lastOp.err = "Error"

\* C12: the connection step of an instance never runs while the bootstrap
\* script another instance requested is still loading: an open issued then
\* only waits, and raises no entry-point error.
C12_NoConnectBeforeLoad ==
  (lastOp.op = "open" /\ unloaded \ {lastOp.inst} # {}) =>
    /\ ~HandlerRan
    /\ lastOp.err = "none"

\* The connection step of the instance has completed and the instance was
\* not disposed: the state in which it is to hold its handle.
Connected(i) == loadState[i] = "loaded" /\ ~disposed_[i]

C16_FailedListenKeepsCache ==
  [][ (lastOp'.op = "addEventListener" /\ lastOp'.err # "none") =>
        wrapperMap_' = wrapperMap_ ]_vars

C18_NoLoadAfterDispose ==
  /\ [][ (lastOp'.op = "dispose" /\ ~disposed_[lastOp'.inst]
            /\ loadState[lastOp'.inst] = "loading") =>
           lastOp'.inst \notin listening' ]_vars
  /\ [][ \A i \in Instances :
           (imported_ /\ i \notin listening) => i \notin listening' ]_vars
  /\ []((lastOp.op = "scriptLoad" /\ lastOp.inst \notin listening) =>
          /\ lastOp.ret = "ignored"
          /\ lastOp.err = "none"
          /\ ~HoldsHandle(lastOp.inst)
          /\ \A k \in 1..Len(calls) : calls[k].fn # "connect")

\* The script finished loading after the instance that requested it was
\* disposed while loading.
C18_Witness ==
  /\ lastOp.op = "scriptLoad"
  /\ lastOp.ret = "ignored"
  /\ disposed_[lastOp.inst]
  /\ loadState[lastOp.inst] = "loading"

\* C19: an instance that is unopened or loading holds no handle, and an
\* instance holds a handle only after its connection step succeeded and
\* until it is disposed.
C19_HandleOnlyWhenConnected ==
  \A i \in Instances :
    /\ loadState[i] \in {"unopened", "loading"} => ~HoldsHandle(i)
    /\ HoldsHandle(i) => (loadState[i] = "loaded" /\ ~disposed_[i])

\* One instance is loading, another has been through its connection step,
\* and an operation that needs the handle was tried on the loading one.
C19_Witness ==
  /\ lastOp.op \in PassThroughOps
  /\ loadState[lastOp.inst] = "loading"
  /\ ~HoldsHandle(lastOp.inst)
  /\ \E j \in Instances : loadState[j] \in {"loaded", "failed"}

\* C20: every open(url), a first or a later one, stores url as the address
\* and runs importSocketIo: it injects the script and listens for LOAD, or,
\* the script requested, runs the load-completion handler.
C20_OpenOverwrites ==
  lastOp.op = "open" =>
    /\ serverAddr_[lastOp.inst] = lastOp.args[1]
    /\ \/ HandlerRan
       \/ /\ loadState[lastOp.inst] = "loading"
          /\ lastOp.inst \in listening
          /\ lastOp.inst \in unloaded

\* An instance that had injected the script called open again.
C20_Witness ==
  /\ lastOp.op = "open"
  /\ lastOp.inst \in listening
  /\ HandlerRan
  /\ serverAddr_[lastOp.inst] = AddrNames[2]

=============================================================================
